---- MODULE Spec2Model ----
(***************************************************************************)
(* Greenville Cash: the encrypted local-storage persistence scheme         *)
(* (src/encryption.js, src/storage.js) and the authentication flow         *)
(* (src/auth.js, helpers of the common script src/unnamed/part_000).       *)
(*                                                                         *)
(* JavaScript strings are sequences of one-character strings, so that      *)
(* toLowerCase, the e-mail regular expression, the password classes and    *)
(* JSON.parse are computed and not assumed.                                *)
(***************************************************************************)
EXTENDS Integers, Sequences, FiniteSets, Bags, TLC

\* ------------------------------------------------------------------ bounds
\* import('./encryption.js') continuations waiting to run
MaxPending == 2
\* remote requests (fetch) in flight
MaxInflight == 2

\* --------------------------------------------------------------- characters
LowerChars == <<"a","b","c","d","e","f","g","h","i","j","k","l","m",
                "n","o","p","q","r","s","t","u","v","w","x","y","z">>
UpperChars == <<"A","B","C","D","E","F","G","H","I","J","K","L","M",
                "N","O","P","Q","R","S","T","U","V","W","X","Y","Z">>
DigitChars == <<"0","1","2","3","4","5","6","7","8","9">>
SpaceChars == {" ", "\t", "\n", "\r"}

Range(s) == {s[i] : i \in DOMAIN s}
LowerSet == Range(LowerChars)
UpperSet == Range(UpperChars)
DigitSet == Range(DigitChars)
IsLower(c) == c \in LowerSet
IsUpper(c) == c \in UpperSet
IsDigit(c) == c \in DigitSet

\* String.prototype.toLowerCase, character by character
LowerMap ==
    [c \in UpperSet |->
        LowerChars[CHOOSE i \in DOMAIN UpperChars : UpperChars[i] = c]]
LowerOf(c) == IF IsUpper(c) THEN LowerMap[c] ELSE c
toLowerCase(s) == [i \in DOMAIN s |-> LowerOf(s[i])]

\* String.prototype.trim().length, as handleSignup uses it on the full name
RECURSIVE TrimLeft(_)
TrimLeft(s) ==
    IF s # <<>> /\ Head(s) \in SpaceChars THEN TrimLeft(Tail(s)) ELSE s
RECURSIVE TrimRight(_)
TrimRight(s) ==
    IF s # <<>> /\ s[Len(s)] \in SpaceChars
    THEN TrimRight(SubSeq(s, 1, Len(s) - 1)) ELSE s
trim(s) == TrimRight(TrimLeft(s))

\* /^[^\s@]+@[^\s@]+\.[^\s@]+$/.test(email)
isValidEmail(email) ==
    \E i \in DOMAIN email : \E j \in DOMAIN email :
        /\ email[i] = "@"
        /\ email[j] = "."
        /\ 1 < i /\ i + 1 < j /\ j < Len(email)
        /\ \A k \in DOMAIN email :
              /\ email[k] \notin SpaceChars
              /\ (k # i => email[k] # "@")

\* validatePasswordStrength(password): {isValid, score, feedback}
validatePasswordStrength(password) ==
    IF Len(password) < 8
    THEN [isValid |-> FALSE, score |-> 0,
          feedback |-> "Password should be at least 8 characters long"]
    ELSE LET has(P(_)) == IF \E i \in DOMAIN password : P(password[i])
                          THEN 1 ELSE 0
             other(c) == ~IsLower(c) /\ ~IsUpper(c) /\ ~IsDigit(c)
             score == has(IsLower) + has(IsUpper) + has(IsDigit) + has(other)
         IN  [isValid |-> score >= 2, score |-> score,
              feedback |-> CASE score <= 1 -> "Weak password"
                             [] score = 2 -> "Fair password"
                             [] score = 3 -> "Good password"
                             [] OTHER     -> "Strong password"]

\* ------------------------------------------------------------- JS values
\* A scalar is [t, s]: its typeof tag (null has its own) and its text, the
\* one String(value) gives.  A value is [t, s, o]; o is the content when
\* t = "object".  Every value has the same shape.
True == <<"t","r","u","e">>
False == <<"f","a","l","s","e">>
NullText == <<"n","u","l","l">>
UndefinedText == <<"u","n","d","e","f","i","n","e","d">>
NaNText == <<"N","a","N">>

UndefinedS == [t |-> "undefined", s |-> UndefinedText]
NullS == [t |-> "null", s |-> NullText]
StrS(s) == [t |-> "string", s |-> s]
NumS(s) == [t |-> "number", s |-> s]
BoolS(b) == [t |-> "boolean", s |-> IF b THEN True ELSE False]

\* the object with no own properties (every property reads undefined)
NoObj ==
    [fullname |-> UndefinedS, email |-> UndefinedS, createdAt |-> UndefinedS,
     accounts |-> <<>>, transactions |-> <<>>, budgets |-> <<>>,
     settings |-> [currency |-> UndefinedS, theme |-> UndefinedS,
                   notifications |-> UndefinedS]]

Scalar(v) == [t |-> v.t, s |-> v.s, o |-> NoObj]
Object(o) == [t |-> "object", s |-> <<>>, o |-> o]
Undefined == Scalar(UndefinedS)
Null == Scalar(NullS)
Str(s) == Scalar(StrS(s))
Num(s) == Scalar(NumS(s))
Bool(b) == Scalar(BoolS(b))

\* new Date().toISOString() at clock reading n
toISOString(n) == <<"2","0","2","5","-","0", DigitChars[n + 1]>>

\* ------------------------------------------------------------------- JSON
\* JSON.stringify of a string: quotes, with " and \ escaped
RECURSIVE Escape(_)
Escape(s) ==
    IF s = <<>> THEN <<>>
    ELSE (IF Head(s) \in {"\"", "\\"} THEN <<"\\", Head(s)>> ELSE <<Head(s)>>)
         \o Escape(Tail(s))
Quote(s) == <<"\"">> \o Escape(s) \o <<"\"">>

\* JSON.stringify of a scalar that is a property value or an array element:
\* NaN becomes null; undefined is handled by the caller
Literal(v) ==
    CASE v.t = "string" -> Quote(v.s)
      [] v.t = "number" -> IF v.s = NaNText THEN NullText ELSE v.s
      [] v.t = "boolean" -> v.s
      [] OTHER -> NullText

\* a property whose value is undefined is left out (<<>>); in an array it
\* is written as null
PropertyText(v) == IF v.t = "undefined" THEN <<>> ELSE Literal(v)
ArrayText(a) == [i \in DOMAIN a |-> Literal(a[i])]

NoObjText ==
    [fullname |-> <<>>, email |-> <<>>, createdAt |-> <<>>,
     accounts |-> <<>>, transactions |-> <<>>, budgets |-> <<>>,
     settings |-> [currency |-> <<>>, theme |-> <<>>, notifications |-> <<>>]]

\* A text is [k, s, o]: the characters s of a scalar's text, or the JSON
\* text of an object, kept as the JSON text of each property.
ScalarText(s) == [k |-> "scalar", s |-> s, o |-> NoObjText]
ObjectText(o) == [k |-> "object", s |-> <<>>, o |-> o]

\* JSON.stringify(data) for typeof data === 'object'
JSONstringify(data) ==
    IF data.t = "null" THEN ScalarText(NullText)
    ELSE ObjectText(
        [fullname |-> PropertyText(data.o.fullname),
         email |-> PropertyText(data.o.email),
         createdAt |-> PropertyText(data.o.createdAt),
         accounts |-> ArrayText(data.o.accounts),
         transactions |-> ArrayText(data.o.transactions),
         budgets |-> ArrayText(data.o.budgets),
         settings |->
            [currency |-> PropertyText(data.o.settings.currency),
             theme |-> PropertyText(data.o.settings.theme),
             notifications |-> PropertyText(data.o.settings.notifications)]])

\* the characters between the quotes of a JSON string; ok is FALSE on a
\* bare quote, a control character or an escape JSON does not have
RECURSIVE Unescape(_)
Unescape(s) ==
    IF s = <<>> THEN [ok |-> TRUE, s |-> <<>>]
    ELSE IF Head(s) = "\\"
    THEN IF Len(s) >= 2 /\ s[2] \in {"\"", "\\", "/", "n", "t", "r"}
         THEN LET rest == Unescape(SubSeq(s, 3, Len(s)))
                  c == CASE s[2] = "n" -> "\n"
                         [] s[2] = "t" -> "\t"
                         [] s[2] = "r" -> "\r"
                         [] OTHER -> s[2]
              IN  [ok |-> rest.ok, s |-> <<c>> \o rest.s]
         ELSE [ok |-> FALSE, s |-> <<>>]
    ELSE IF Head(s) \in {"\"", "\n", "\t", "\r"}
    THEN [ok |-> FALSE, s |-> <<>>]
    ELSE LET rest == Unescape(Tail(s))
         IN  [ok |-> rest.ok, s |-> <<Head(s)>> \o rest.s]

\* the JSON number grammar, integers only: -?(0|[1-9][0-9]*)
IsJSONNumber(s) ==
    LET d == IF s # <<>> /\ Head(s) = "-" THEN Tail(s) ELSE s
    IN  /\ d # <<>>
        /\ \A i \in DOMAIN d : IsDigit(d[i])
        /\ (d[1] = "0" => Len(d) = 1)

\* JSON.parse of a scalar text: [ok, v]; ok is FALSE for a SyntaxError
ParseLiteral(text) ==
    LET s == trim(text)
    IN  CASE s = NullText -> [ok |-> TRUE, v |-> NullS]
          [] s = True -> [ok |-> TRUE, v |-> BoolS(TRUE)]
          [] s = False -> [ok |-> TRUE, v |-> BoolS(FALSE)]
          [] IsJSONNumber(s) -> [ok |-> TRUE, v |-> NumS(s)]
          [] Len(s) >= 2 /\ s[1] = "\"" /\ s[Len(s)] = "\"" ->
                LET u == Unescape(SubSeq(s, 2, Len(s) - 1))
                IN  [ok |-> u.ok, v |-> StrS(u.s)]
          [] OTHER -> [ok |-> FALSE, v |-> UndefinedS]

\* a property read back: missing properties read undefined
ParseProperty(text) ==
    IF text = <<>> THEN UndefinedS ELSE ParseLiteral(text).v
ParseArray(a) == [i \in DOMAIN a |-> ParseLiteral(a[i]).v]

\* JSON.parse(text): [ok, v]
JSONparse(text) ==
    IF text.k = "object"
    THEN [ok |-> TRUE, v |-> Object(
            [fullname |-> ParseProperty(text.o.fullname),
             email |-> ParseProperty(text.o.email),
             createdAt |-> ParseProperty(text.o.createdAt),
             accounts |-> ParseArray(text.o.accounts),
             transactions |-> ParseArray(text.o.transactions),
             budgets |-> ParseArray(text.o.budgets),
             settings |->
                [currency |-> ParseProperty(text.o.settings.currency),
                 theme |-> ParseProperty(text.o.settings.theme),
                 notifications |->
                    ParseProperty(text.o.settings.notifications)]])]
    ELSE LET p == ParseLiteral(text.s)
         IN  [ok |-> p.ok, v |-> Scalar(p.v)]

\* ------------------------------------------------------------ encryption.js
DefaultSalt == "greenville_cash_salt"

\* PBKDF2 is taken to be injective: the key is the pair it was derived from
deriveKeyFromPassword(password, salt) == [pw |-> password, salt |-> salt]

\* AES-CBC under a key.  The cipher is ideal: a ciphertext opens under the
\* key it was made with and under no other.
AESencrypt(text, key) == [key |-> key, text |-> text]
AESdecrypt(ct, key) ==
    IF ct.key = key THEN [ok |-> TRUE, text |-> ct.text]
    ELSE [ok |-> FALSE, text |-> ScalarText(<<>>)]

\* a blob is <<iv, ciphertext>>, the two parts of "iv:ciphertext";
\* getItem of a missing entry gives NoBlob
NoBlob == <<>>

\* encryptData without the JSON.stringify branch: String(data) for every
\* value, which is "[object Object]" for an object
ObjectObjectText ==
    <<"[","o","b","j","e","c","t"," ","O","b","j","e","c","t","]">>
encryptData_NoStringify(data, password, iv) ==
    LET dataStr == IF data.t = "object" THEN ScalarText(ObjectObjectText)
                   ELSE ScalarText(data.s)
        key == deriveKeyFromPassword(password, DefaultSalt)
    IN  <<iv, AESencrypt(dataStr, key)>>

encryptData(data, password, iv) ==
    LET dataStr == IF data.t \in {"object", "null"}
                   THEN JSONstringify(data)
                   ELSE ScalarText(data.s)
        key == deriveKeyFromPassword(password, DefaultSalt)
    IN  <<iv, AESencrypt(dataStr, key)>>

\* [threw, val]: threw is the Error('Failed to decrypt data')
decryptData(encryptedData, password) ==
    LET parts == encryptedData
        Threw == [threw |-> TRUE, val |-> Undefined]
    IN  IF Len(parts) # 2 THEN Threw
        ELSE LET key == deriveKeyFromPassword(password, DefaultSalt)
                 decrypted == AESdecrypt(parts[2], key)
                 decryptedStr == decrypted.text
                 parsed == JSONparse(decryptedStr)
             IN  IF ~decrypted.ok THEN Threw
                 ELSE IF decryptedStr.k = "scalar" /\ decryptedStr.s = <<>>
                 THEN Threw
                 ELSE IF parsed.ok THEN [threw |-> FALSE, val |-> parsed.v]
                 ELSE [threw |-> FALSE, val |-> Str(decryptedStr.s)]

\* ------------------------------------------------------------------ inputs
\* what the forms and the callers are given
EmailA == <<"A","@","b",".","c">>
EmailBad == <<"a","b">>
EmailC == <<"c","@","d",".","e">>
EmailInputs == {EmailA, EmailBad, EmailC}

Pass1 == <<"p","a","s","s","w","0","r","d">>
Pass2 == <<"S","e","c","r","e","t","9","9">>
PassWeak == <<"p","a","s","s","w","o","r","d">>
PassShort == <<"a","b","1">>
Passwords == {Pass1, Pass2}

NameAB == <<"A"," ","B">>
NameShort == <<" ","x">>

\* the login form as submitted: <<email, password, remember>>
LoginForms ==
    {<<EmailA, p, r>> : p \in Passwords, r \in BOOLEAN}
    \cup {<<EmailBad, Pass1, FALSE>>, <<EmailA, <<>>, FALSE>>}

\* the signup form as submitted:
\* <<fullname, email, password, confirm-password, terms>>
SignupForms ==
    {<<NameAB, EmailA, p, p, TRUE>> : p \in Passwords}
    \cup {<<NameShort, EmailA, Pass1, Pass1, TRUE>>,
          <<<<>>, EmailA, Pass1, Pass1, TRUE>>,
          <<NameAB, EmailBad, Pass1, Pass1, TRUE>>,
          <<NameAB, EmailA, PassShort, PassShort, TRUE>>,
          <<NameAB, EmailA, PassWeak, PassWeak, TRUE>>,
          <<NameAB, EmailA, Pass1, Pass2, TRUE>>,
          <<NameAB, EmailA, Pass1, Pass1, FALSE>>}

\* two people on one browser: each signs up, the first logs in with
\* 'remember me' ticked, the second without; one mistyped password
SharedSignupForms ==
    {<<NameAB, EmailA, Pass1, Pass1, TRUE>>,
     <<NameAB, EmailC, Pass2, Pass2, TRUE>>}
SharedLoginForms ==
    {<<EmailA, Pass1, TRUE>>, <<EmailC, Pass2, FALSE>>,
     <<EmailA, Pass2, TRUE>>}

\* the forms that pass every check handleSignup makes on the form alone
ValidSignupForms ==
    {form \in SignupForms :
        /\ form[1] # <<>> /\ Len(trim(form[1])) >= 2
        /\ isValidEmail(form[2])
        /\ validatePasswordStrength(form[3]).isValid
        /\ form[3] = form[4]
        /\ form[5]}

Token1 == <<"g","h","p">>
Tokens == {Token1}
SessionKeys == Passwords

\* initialization vectors WordArray.random can return
IVs == {1}
\* readings of the clock (new Date())
Times == {1}
\* identifiers the remote blob API hands out: one per POST, and no more
\* POSTs overlap than requests are in flight
GistIds == 1..MaxInflight

\* the e-mails a gcash_user_<email> entry can be written for
Users == {toLowerCase(e) : e \in {x \in EmailInputs : isValidEmail(x)}}

USD == <<"U","S","D">>
Light == <<"l","i","g","h","t">>
Settings ==
    [currency |-> StrS(USD), theme |-> StrS(Light),
     notifications |-> BoolS(TRUE)]

\* the records the dashboard hands to saveUserData
Cash == <<"c","a","s","h">>
Record1 ==
    Object([fullname |-> StrS(NameAB), email |-> StrS(toLowerCase(EmailA)),
            createdAt |-> StrS(toISOString(1)),
            accounts |-> <<StrS(Cash)>>, transactions |-> <<>>,
            budgets |-> <<>>, settings |-> Settings])
Record2 ==
    Object([fullname |-> StrS(NameAB), email |-> StrS(toLowerCase(EmailA)),
            createdAt |-> StrS(toISOString(1)),
            accounts |-> <<>>, transactions |-> <<NumS(<<"1","2">>)>>,
            budgets |-> <<>>, settings |-> Settings])
SaveRecords == {Record1, Record2}

\* ------------------------------------------------------------------- state
\* a storage entry that is not there (getItem gives null)
Absent == <<"<null>">>
NoGist == 0

VARIABLES
    localStorage,    \* the gcash_* entries of window.localStorage
    sessionStorage,  \* gcash_session_key
    cookie,          \* gcash_remember
    pending,         \* bag of import('./encryption.js').then continuations
    inflight,        \* bag of fetch requests not yet answered
    gists,           \* the remote blob store: identifier -> content
    ret,             \* the last call: its name, its message, what it returned
    codec            \* encryptData/decryptData applied on their own

vars == <<localStorage, sessionStorage, cookie, pending, inflight, gists,
          ret, codec>>

Ret(op, msg, val) == [op |-> op, msg |-> msg, val |-> val]

CodecIdle ==
    [stage |-> "idle", data |-> Undefined, password |-> <<>>,
     blob |-> NoBlob, threw |-> FALSE, out |-> Undefined]

Init ==
    /\ localStorage =
          [gcash_user |-> [e \in Users |-> NoBlob],
           gcash_logged_in |-> Absent,
           gcash_current_user |-> Absent,
           gcash_backup_enabled |-> Absent,
           gcash_github_token |-> Absent,
           gcash_backup_gist_id |-> NoGist,
           gcash_last_backup |-> Absent]
    /\ sessionStorage = [gcash_session_key |-> Absent]
    /\ cookie = [gcash_remember |-> Absent]
    /\ pending = EmptyBag
    /\ inflight = EmptyBag
    /\ gists = [g \in GistIds |-> NoBlob]
    /\ ret = Ret("", "", Undefined)
    /\ codec = CodecIdle

\* localStorage.getItem(`gcash_user_${email}`)
getUser(email) ==
    IF email \in DOMAIN localStorage.gcash_user
    THEN localStorage.gcash_user[email] ELSE NoBlob

\* `!value` for a string read from storage: null or the empty string
Falsy(v) == v = Absent \/ v = <<>>

\* ---------------------------------------------------- encryption.js: cache
\* storeSessionKey that also keeps the key for the next visit, in a cookie
storeSessionKey_InCookie(key) ==
    /\ sessionStorage' = [sessionStorage EXCEPT !.gcash_session_key = key]
    /\ cookie' = [cookie EXCEPT !.gcash_remember = key]
    /\ ret' = Ret("storeSessionKey", "", Undefined)
    /\ UNCHANGED <<localStorage, pending, inflight, gists, codec>>

storeSessionKey(key) ==
    /\ sessionStorage' = [sessionStorage EXCEPT !.gcash_session_key = key]
    /\ ret' = Ret("storeSessionKey", "", Undefined)
    /\ UNCHANGED <<localStorage, cookie, pending, inflight, gists, codec>>

getSessionKey == sessionStorage.gcash_session_key

clearSessionKey ==
    /\ sessionStorage' = [sessionStorage EXCEPT !.gcash_session_key = Absent]
    /\ ret' = Ret("clearSessionKey", "", Undefined)
    /\ UNCHANGED <<localStorage, cookie, pending, inflight, gists, codec>>

\* ------------------------------------------------------------------ auth.js
LoginTask(email, password, rememberMe, blob) ==
    [kind |-> "login", fullname |-> <<>>, email |-> email,
     password |-> password, rememberMe |-> rememberMe, blob |-> blob]
SignupTask(fullname, email, password) ==
    [kind |-> "signup", fullname |-> fullname, email |-> email,
     password |-> password, rememberMe |-> FALSE, blob |-> NoBlob]

\* showNotification(msg) and return, nothing else touched
Notify(op, msg) ==
    /\ ret' = Ret(op, msg, Undefined)
    /\ UNCHANGED <<localStorage, sessionStorage, cookie, pending, inflight,
                   gists, codec>>

\* handleLogin up to import('./encryption.js'): the form is read and
\* checked, the blob is read, the continuation is queued
handleLogin(email, password, rememberMe) ==
    LET encryptedUserData == getUser(toLowerCase(email))
    IN  IF ~isValidEmail(email)
        THEN Notify("handleLogin", "Please enter a valid email address")
        ELSE IF password = <<>>
        THEN Notify("handleLogin", "Please enter your password")
        ELSE IF encryptedUserData = NoBlob
        THEN Notify("handleLogin", "Email or password is incorrect")
        ELSE /\ BagCardinality(pending) < MaxPending
             /\ pending' = pending (+) SetToBag(
                    {LoginTask(email, password, rememberMe,
                               encryptedUserData)})
             /\ ret' = Ret("handleLogin", "", Undefined)
             /\ UNCHANGED <<localStorage, sessionStorage, cookie, inflight,
                            gists, codec>>

\* the continuation of handleLogin without the try/catch around
\* decryptData deciding anything: the session is set in either case
handleLoginThen_IgnoresFailure(task) ==
    /\ task.kind = "login"
    /\ BagIn(task, pending)
    /\ pending' = pending (-) SetToBag({task})
    /\ localStorage' =
          [localStorage EXCEPT
              !.gcash_logged_in = True,
              !.gcash_current_user = toLowerCase(task.email)]
    /\ cookie' =
          IF task.rememberMe
          THEN [cookie EXCEPT !.gcash_remember = toLowerCase(task.email)]
          ELSE cookie
    /\ ret' = Ret("handleLogin", "Login successful! Redirecting...",
                  Undefined)
    /\ UNCHANGED <<sessionStorage, inflight, gists, codec>>

\* the .then(module => ...) of handleLogin
handleLoginThen(task) ==
    LET userData == decryptData(task.blob, task.password)
    IN  /\ task.kind = "login"
        /\ BagIn(task, pending)
        /\ pending' = pending (-) SetToBag({task})
        /\ IF userData.threw
           THEN /\ ret' = Ret("handleLogin", "Email or password is incorrect",
                              Undefined)
                /\ UNCHANGED <<localStorage, cookie>>
           ELSE /\ localStorage' =
                      [localStorage EXCEPT
                          !.gcash_logged_in = True,
                          !.gcash_current_user = toLowerCase(task.email)]
                /\ cookie' =
                      IF task.rememberMe
                      THEN [cookie EXCEPT
                              !.gcash_remember = toLowerCase(task.email)]
                      ELSE cookie
                /\ ret' = Ret("handleLogin",
                              "Login successful! Redirecting...", Undefined)
        /\ UNCHANGED <<sessionStorage, inflight, gists, codec>>

\* handleSignup without the 'already registered' check
handleSignup_NoDuplicateCheck(fullname, email, password, confirmPassword, termsAccepted) ==
    LET passwordStrength == validatePasswordStrength(password)
    IN  IF fullname = <<>> \/ Len(trim(fullname)) < 2
        THEN Notify("handleSignup", "Please enter your full name")
        ELSE IF ~isValidEmail(email)
        THEN Notify("handleSignup", "Please enter a valid email address")
        ELSE IF ~passwordStrength.isValid
        THEN Notify("handleSignup", passwordStrength.feedback)
        ELSE IF password # confirmPassword
        THEN Notify("handleSignup", "Passwords do not match")
        ELSE IF ~termsAccepted
        THEN Notify("handleSignup",
                    "You must accept the Terms and Conditions")
        ELSE /\ BagCardinality(pending) < MaxPending
             /\ pending' = pending (+) SetToBag(
                    {SignupTask(fullname, email, password)})
             /\ ret' = Ret("handleSignup", "", Undefined)
             /\ UNCHANGED <<localStorage, sessionStorage, cookie, inflight,
                            gists, codec>>

\* handleSignup up to import('./encryption.js')
handleSignup(fullname, email, password, confirmPassword, termsAccepted) ==
    LET passwordStrength == validatePasswordStrength(password)
    IN  IF fullname = <<>> \/ Len(trim(fullname)) < 2
        THEN Notify("handleSignup", "Please enter your full name")
        ELSE IF ~isValidEmail(email)
        THEN Notify("handleSignup", "Please enter a valid email address")
        ELSE IF ~passwordStrength.isValid
        THEN Notify("handleSignup", passwordStrength.feedback)
        ELSE IF password # confirmPassword
        THEN Notify("handleSignup", "Passwords do not match")
        ELSE IF ~termsAccepted
        THEN Notify("handleSignup",
                    "You must accept the Terms and Conditions")
        ELSE IF getUser(toLowerCase(email)) # NoBlob
        THEN Notify("handleSignup", "This email is already registered")
        ELSE /\ BagCardinality(pending) < MaxPending
             /\ pending' = pending (+) SetToBag(
                    {SignupTask(fullname, email, password)})
             /\ ret' = Ret("handleSignup", "", Undefined)
             /\ UNCHANGED <<localStorage, sessionStorage, cookie, inflight,
                            gists, codec>>

\* the record handleSignup creates
NewUserData(fullname, email, now) ==
    Object([fullname |-> StrS(fullname),
            email |-> StrS(toLowerCase(email)),
            createdAt |-> StrS(toISOString(now)),
            accounts |-> <<>>, transactions |-> <<>>, budgets |-> <<>>,
            settings |-> Settings])

\* the .then(module => ...) of handleSignup
handleSignupThen(task, iv, now) ==
    LET userData == NewUserData(task.fullname, task.email, now)
        encryptedUserData == encryptData(userData, task.password, iv)
    IN  /\ task.kind = "signup"
        /\ BagIn(task, pending)
        /\ pending' = pending (-) SetToBag({task})
        /\ localStorage' =
              [localStorage EXCEPT
                  !.gcash_user[toLowerCase(task.email)] = encryptedUserData,
                  !.gcash_logged_in = True,
                  !.gcash_current_user = toLowerCase(task.email)]
        /\ ret' = Ret("handleSignup",
                      "Account created successfully! Redirecting...",
                      Undefined)
        /\ UNCHANGED <<sessionStorage, cookie, inflight, gists, codec>>

\* handleLogout that removes the flag but not the pointer
handleLogout_KeepsPointer ==
    /\ localStorage' = [localStorage EXCEPT !.gcash_logged_in = Absent]
    /\ cookie' = [cookie EXCEPT !.gcash_remember = Absent]
    /\ ret' = Ret("handleLogout", "You have been logged out successfully",
                  Undefined)
    /\ UNCHANGED <<sessionStorage, pending, inflight, gists, codec>>

\* handleLogout that leaves the e-mail of the user it logs out in the
\* cookie, for the login form to offer next time
handleLogout_RemembersUser ==
    /\ localStorage' = [localStorage EXCEPT !.gcash_logged_in = Absent,
                                            !.gcash_current_user = Absent]
    /\ cookie' = [cookie EXCEPT
                    !.gcash_remember = localStorage.gcash_current_user]
    /\ ret' = Ret("handleLogout", "You have been logged out successfully",
                  Undefined)
    /\ UNCHANGED <<sessionStorage, pending, inflight, gists, codec>>

handleLogout ==
    /\ localStorage' = [localStorage EXCEPT !.gcash_logged_in = Absent,
                                            !.gcash_current_user = Absent]
    /\ cookie' = [cookie EXCEPT !.gcash_remember = Absent]
    /\ ret' = Ret("handleLogout", "You have been logged out successfully",
                  Undefined)
    /\ UNCHANGED <<sessionStorage, pending, inflight, gists, codec>>

checkRememberMeCookie ==
    LET email == cookie.gcash_remember
    IN  IF ~Falsy(email) /\ getUser(email) # NoBlob
        THEN /\ localStorage' = [localStorage EXCEPT
                                    !.gcash_logged_in = True,
                                    !.gcash_current_user = email]
             /\ ret' = Ret("checkRememberMeCookie", "", Bool(TRUE))
             /\ UNCHANGED <<sessionStorage, cookie, pending, inflight,
                            gists, codec>>
        ELSE /\ ret' = Ret("checkRememberMeCookie", "", Bool(FALSE))
             /\ UNCHANGED <<localStorage, sessionStorage, cookie, pending,
                            inflight, gists, codec>>

\* --------------------------------------------------------------- storage.js
\* a fetch that has been issued and not yet answered
\* (password: what restoreFromBackup keeps for when its fetch is answered)
Request(kind, stage, method, gistId, content, token) ==
    [kind |-> kind, stage |-> stage, method |-> method, gistId |-> gistId,
     content |-> content, token |-> token, password |-> <<>>]

\* what a request can come back as: 2xx, another status, a rejected promise
Outcomes == {"ok", "rejected", "throws"}

\* backupUserData that never reads the stored pointer: every backup is a
\* create
backupUserData_AlwaysCreate(encryptedData) ==
    LET backupEnabled == localStorage.gcash_backup_enabled = True
        githubToken == localStorage.gcash_github_token
    IN  IF ~backupEnabled THEN {}
        ELSE IF Falsy(githubToken) THEN {}
        ELSE {Request("backup", "fetch", "POST", NoGist, encryptedData,
                      githubToken)}

\* backupUserData up to its fetch: the request it issues, as a set that is
\* empty when it returns false before fetching
backupUserData(encryptedData) ==
    LET backupEnabled == localStorage.gcash_backup_enabled = True
        githubToken == localStorage.gcash_github_token
        gistId == localStorage.gcash_backup_gist_id
    IN  IF ~backupEnabled THEN {}
        ELSE IF Falsy(githubToken) THEN {}
        ELSE IF gistId # NoGist
        THEN {Request("backup", "fetch", "PATCH", gistId, encryptedData,
                      githubToken)}
        ELSE {Request("backup", "fetch", "POST", NoGist, encryptedData,
                      githubToken)}

\* saveUserData without the session-key check: the record is encrypted
\* under whatever getSessionKey() returned
saveUserData_NoKeyCheck(userData, iv) ==
    LET currentUserEmail == localStorage.gcash_current_user
        sessionKey == getSessionKey
        encryptedData == encryptData(userData, sessionKey, iv)
        request == backupUserData(encryptedData)
    IN  IF Falsy(currentUserEmail)
        THEN /\ ret' = Ret("saveUserData",
                           "Error saving user data: No user is currently logged in",
                           Bool(FALSE))
             /\ UNCHANGED <<localStorage, sessionStorage, cookie, pending,
                            inflight, gists, codec>>
        ELSE /\ localStorage' =
                   [localStorage EXCEPT
                       !.gcash_user[currentUserEmail] = encryptedData]
             /\ IF request = {}
                THEN /\ ret' = Ret("saveUserData", "", Bool(TRUE))
                     /\ UNCHANGED inflight
                ELSE /\ BagCardinality(inflight) < MaxInflight
                     /\ inflight' = inflight (+) SetToBag(request)
                     /\ ret' = Ret("saveUserData", "", Undefined)
             /\ UNCHANGED <<sessionStorage, cookie, pending, gists, codec>>

\* saveUserData up to the first await that suspends it
saveUserData(userData, iv) ==
    LET currentUserEmail == localStorage.gcash_current_user
        sessionKey == getSessionKey
        encryptedData == encryptData(userData, sessionKey, iv)
        request == backupUserData(encryptedData)
    IN  IF Falsy(currentUserEmail)
        THEN /\ ret' = Ret("saveUserData",
                           "Error saving user data: No user is currently logged in",
                           Bool(FALSE))
             /\ UNCHANGED <<localStorage, sessionStorage, cookie, pending,
                            inflight, gists, codec>>
        ELSE IF Falsy(sessionKey)
        THEN /\ ret' = Ret("saveUserData",
                           "Error saving user data: No session key available",
                           Bool(FALSE))
             /\ UNCHANGED <<localStorage, sessionStorage, cookie, pending,
                            inflight, gists, codec>>
        ELSE /\ localStorage' =
                   [localStorage EXCEPT
                       !.gcash_user[currentUserEmail] = encryptedData]
             /\ IF request = {}
                THEN /\ ret' = Ret("saveUserData", "", Bool(TRUE))
                     /\ UNCHANGED inflight
                ELSE /\ BagCardinality(inflight) < MaxInflight
                     /\ inflight' = inflight (+) SetToBag(request)
                     /\ ret' = Ret("saveUserData", "", Undefined)
             /\ UNCHANGED <<sessionStorage, cookie, pending, gists, codec>>

\* the smallest identifier the remote store has not handed out
FreeGists == {g \in GistIds : gists[g] = NoBlob}
NewGist == CHOOSE g \in FreeGists : \A h \in FreeGists : g <= h

\* the answer to the fetch when backupUserData has no try/catch: a rejected
\* or failed request reaches saveUserData's catch, which returns false
backupUserDataResponse_Propagates(request, outcome, now) ==
    /\ request.kind = "backup" /\ request.stage = "fetch"
    /\ BagIn(request, inflight)
    /\ CASE outcome = "ok" /\ request.method = "PATCH" ->
              /\ gists[request.gistId] # NoBlob
              /\ gists' = [gists EXCEPT ![request.gistId] = request.content]
              /\ inflight' = inflight (-) SetToBag({request})
              /\ localStorage' = [localStorage EXCEPT
                                    !.gcash_last_backup = toISOString(now)]
              /\ ret' = Ret("saveUserData", "", Bool(TRUE))
         [] outcome = "ok" /\ request.method = "POST" ->
              /\ FreeGists # {}
              /\ gists' = [gists EXCEPT ![NewGist] = request.content]
              /\ inflight' = (inflight (-) SetToBag({request})) (+)
                    SetToBag({[request EXCEPT !.stage = "json",
                                              !.gistId = NewGist]})
              /\ UNCHANGED <<localStorage, ret>>
         [] OTHER ->
              /\ inflight' = inflight (-) SetToBag({request})
              /\ ret' = Ret("saveUserData", "Error saving user data:",
                            Bool(FALSE))
              /\ UNCHANGED <<localStorage, gists>>
    /\ UNCHANGED <<sessionStorage, cookie, pending, codec>>

\* the answer to backupUserData's fetch, and saveUserData's return
backupUserDataResponse(request, outcome, now) ==
    /\ request.kind = "backup" /\ request.stage = "fetch"
    /\ BagIn(request, inflight)
    /\ CASE outcome = "ok" /\ request.method = "PATCH" ->
              /\ gists[request.gistId] # NoBlob
              /\ gists' = [gists EXCEPT ![request.gistId] = request.content]
              /\ inflight' = inflight (-) SetToBag({request})
              /\ localStorage' = [localStorage EXCEPT
                                    !.gcash_last_backup = toISOString(now)]
              /\ ret' = Ret("saveUserData", "", Bool(TRUE))
         [] outcome = "ok" /\ request.method = "POST" ->
              \* response.ok: the next await is response.json()
              /\ FreeGists # {}
              /\ gists' = [gists EXCEPT ![NewGist] = request.content]
              /\ inflight' = (inflight (-) SetToBag({request})) (+)
                    SetToBag({[request EXCEPT !.stage = "json",
                                              !.gistId = NewGist]})
              /\ UNCHANGED <<localStorage, ret>>
         [] outcome = "rejected" ->
              /\ inflight' = inflight (-) SetToBag({request})
              /\ ret' = Ret("saveUserData", "Backup error: GitHub API error",
                            Bool(TRUE))
              /\ UNCHANGED <<localStorage, gists>>
         [] OTHER ->
              /\ inflight' = inflight (-) SetToBag({request})
              /\ ret' = Ret("saveUserData", "Backup error: fetch failed",
                            Bool(TRUE))
              /\ UNCHANGED <<localStorage, gists>>
    /\ UNCHANGED <<sessionStorage, cookie, pending, codec>>

\* after await response.json(): the pointer and the timestamp are stored
backupUserDataJson(request, now) ==
    /\ request.kind = "backup" /\ request.stage = "json"
    /\ BagIn(request, inflight)
    /\ inflight' = inflight (-) SetToBag({request})
    /\ localStorage' = [localStorage EXCEPT
                           !.gcash_backup_gist_id = request.gistId,
                           !.gcash_last_backup = toISOString(now)]
    /\ ret' = Ret("saveUserData", "", Bool(TRUE))
    /\ UNCHANGED <<sessionStorage, cookie, pending, gists, codec>>

\* loadUserData without its try/catch: a failed decryption rejects the
\* promise and no value is returned
loadUserDataFrom_Propagates(local, session) ==
    LET currentUserEmail == local.gcash_current_user
        encryptedData == IF currentUserEmail \in DOMAIN local.gcash_user
                         THEN local.gcash_user[currentUserEmail] ELSE NoBlob
        sessionKey == session.gcash_session_key
        userData == decryptData(encryptedData, sessionKey)
    IN  IF Falsy(currentUserEmail) THEN Ret("loadUserData", "", Null)
        ELSE IF encryptedData = NoBlob THEN Ret("loadUserData", "", Null)
        ELSE IF Falsy(sessionKey)
        THEN Ret("loadUserData", "No session key available", Undefined)
        ELSE IF userData.threw
        THEN Ret("loadUserData", "Failed to decrypt data", Undefined)
        ELSE Ret("loadUserData", "", userData.val)

\* what loadUserData() resolves to when the two stores are as given
loadUserDataFrom(local, session) ==
    LET currentUserEmail == local.gcash_current_user
        encryptedData == IF currentUserEmail \in DOMAIN local.gcash_user
                         THEN local.gcash_user[currentUserEmail] ELSE NoBlob
        sessionKey == session.gcash_session_key
        userData == decryptData(encryptedData, sessionKey)
    IN  IF Falsy(currentUserEmail) THEN Ret("loadUserData", "", Null)
        ELSE IF encryptedData = NoBlob THEN Ret("loadUserData", "", Null)
        ELSE IF Falsy(sessionKey)
        THEN Ret("loadUserData",
                 "Error loading user data: No session key available", Null)
        ELSE IF userData.threw
        THEN Ret("loadUserData",
                 "Error loading user data: Failed to decrypt data", Null)
        ELSE Ret("loadUserData", "", userData.val)

loadUserData ==
    /\ ret' = loadUserDataFrom(localStorage, sessionStorage)
    /\ UNCHANGED <<localStorage, sessionStorage, cookie, pending, inflight,
                   gists, codec>>

\* configureGithubBackup up to its fetch of /user
configureGithubBackup(githubToken) ==
    /\ BagCardinality(inflight) < MaxInflight
    /\ inflight' = inflight (+) SetToBag(
           {Request("config", "fetch", "GET", NoGist, NoBlob, githubToken)})
    /\ ret' = Ret("configureGithubBackup", "", Undefined)
    /\ UNCHANGED <<localStorage, sessionStorage, cookie, pending, gists,
                   codec>>

configureGithubBackupResponse(request, outcome) ==
    /\ request.kind = "config"
    /\ BagIn(request, inflight)
    /\ inflight' = inflight (-) SetToBag({request})
    /\ IF outcome = "ok"
       THEN /\ localStorage' = [localStorage EXCEPT
                                   !.gcash_github_token = request.token,
                                   !.gcash_backup_enabled = True]
            /\ ret' = Ret("configureGithubBackup", "", Bool(TRUE))
       ELSE /\ ret' = Ret("configureGithubBackup",
                          "GitHub configuration error", Bool(FALSE))
            /\ UNCHANGED localStorage
    /\ UNCHANGED <<sessionStorage, cookie, pending, gists, codec>>

\* restoreFromBackup up to its fetch of the gist
restoreFromBackup(password) ==
    LET githubToken == localStorage.gcash_github_token
        gistId == localStorage.gcash_backup_gist_id
    IN  IF Falsy(githubToken)
        THEN /\ ret' = Ret("restoreFromBackup",
                           "Restore error: No GitHub token available", Null)
             /\ UNCHANGED <<localStorage, sessionStorage, cookie, pending,
                            inflight, gists, codec>>
        ELSE IF gistId = NoGist
        THEN /\ ret' = Ret("restoreFromBackup",
                           "Restore error: No backup Gist ID found", Null)
             /\ UNCHANGED <<localStorage, sessionStorage, cookie, pending,
                            inflight, gists, codec>>
        ELSE /\ BagCardinality(inflight) < MaxInflight
             /\ inflight' = inflight (+) SetToBag(
                    {[Request("restore", "fetch", "GET", gistId, NoBlob,
                              githubToken) EXCEPT !.password = password]})
             /\ ret' = Ret("restoreFromBackup", "", Undefined)
             /\ UNCHANGED <<localStorage, sessionStorage, cookie, pending,
                            gists, codec>>

\* the answer to restoreFromBackup's fetch, with the blob decrypted under
\* the cached session key and not under the password that was passed
restoreFromBackupResponse_UsesSessionKey(request, outcome) ==
    LET encryptedData == gists[request.gistId]
        userData == decryptData(encryptedData, getSessionKey)
    IN  /\ request.kind = "restore"
        /\ BagIn(request, inflight)
        /\ inflight' = inflight (-) SetToBag({request})
        /\ ret' =
              IF outcome = "rejected"
              THEN Ret("restoreFromBackup", "Restore error: GitHub API error",
                       Null)
              ELSE IF outcome = "throws"
              THEN Ret("restoreFromBackup", "Restore error: fetch failed",
                       Null)
              ELSE IF encryptedData = NoBlob
              THEN Ret("restoreFromBackup",
                       "Restore error: No files found in backup Gist", Null)
              ELSE IF userData.threw
              THEN Ret("restoreFromBackup",
                       "Restore error: Failed to decrypt data", Null)
              ELSE Ret("restoreFromBackup", "", userData.val)
        /\ UNCHANGED <<localStorage, sessionStorage, cookie, pending, gists,
                       codec>>

\* the answer to restoreFromBackup's fetch: response.json(), the first
\* file's content, decryptData under the password
restoreFromBackupResponse(request, outcome) ==
    LET encryptedData == gists[request.gistId]
        userData == decryptData(encryptedData, request.password)
    IN  /\ request.kind = "restore"
        /\ BagIn(request, inflight)
        /\ inflight' = inflight (-) SetToBag({request})
        /\ ret' =
              IF outcome = "rejected"
              THEN Ret("restoreFromBackup", "Restore error: GitHub API error",
                       Null)
              ELSE IF outcome = "throws"
              THEN Ret("restoreFromBackup", "Restore error: fetch failed",
                       Null)
              ELSE IF encryptedData = NoBlob
              THEN Ret("restoreFromBackup",
                       "Restore error: No files found in backup Gist", Null)
              ELSE IF userData.threw
              THEN Ret("restoreFromBackup",
                       "Restore error: Failed to decrypt data", Null)
              ELSE Ret("restoreFromBackup", "", userData.val)
        /\ UNCHANGED <<localStorage, sessionStorage, cookie, pending, gists,
                       codec>>

\* ------------------------------------------------- the codec on its own
\* what encryptData is handed: records, strings, and the other values
\* String() and JSON.stringify() accept
Digits123 == <<"1","2","3">>
Hello == <<"h","e","l","l","o">>
QuotedHi == <<"\"","h","i","\"">>
CodecValues ==
    {Record1, Record2, NewUserData(NameAB, EmailA, 1),
     Str(Digits123), Str(True), Str(NullText), Str(<<>>), Str(Hello),
     Str(QuotedHi), Str(NameAB),
     Num(Digits123), Bool(TRUE), Bool(FALSE), Null, Undefined}
CodecPasswords == Passwords

CodecInit ==
    /\ Init!1 /\ Init!2 /\ Init!3 /\ Init!4 /\ Init!5 /\ Init!6 /\ Init!7
    /\ codec \in {[CodecIdle EXCEPT !.stage = "input", !.data = d,
                                    !.password = k] :
                     d \in CodecValues, k \in CodecPasswords}

CodecEncrypt(iv) ==
    /\ codec.stage = "input"
    /\ codec' = [codec EXCEPT
                    !.stage = "encrypted",
                    !.blob = encryptData(codec.data, codec.password, iv)]
    /\ UNCHANGED <<localStorage, sessionStorage, cookie, pending, inflight,
                   gists, ret>>

CodecDecrypt(password) ==
    LET r == decryptData(codec.blob, password)
    IN  /\ codec.stage = "encrypted"
        /\ codec' = [codec EXCEPT
                        !.stage = IF password = codec.password
                                  THEN "decrypted" ELSE "decrypted-other",
                        !.threw = r.threw, !.out = r.val]
        /\ UNCHANGED <<localStorage, sessionStorage, cookie, pending,
                       inflight, gists, ret>>

\* ---------------------------------------------------------- specifications
Requests == BagToSet(inflight)
Tasks == BagToSet(pending)

\* the session key cache, as the pages use it
CacheNext ==
    \/ \E key \in SessionKeys : storeSessionKey(key)
    \/ clearSessionKey

\* the authentication flow
AuthNext ==
    \/ CacheNext
    \/ \E form \in LoginForms : handleLogin(form[1], form[2], form[3])
    \/ \E task \in Tasks : handleLoginThen(task)
    \/ \E form \in SignupForms :
          handleSignup(form[1], form[2], form[3], form[4], form[5])
    \/ \E task \in Tasks, iv \in IVs, now \in Times :
          handleSignupThen(task, iv, now)
    \/ handleLogout
    \/ checkRememberMeCookie
    \/ loadUserData

AuthSpec == Init /\ [][AuthNext]_vars

\* the record store and its remote mirror, entered through a signup
\* under either password, with one key the pages may cache: a record
\* created under the other key is the blob that key cannot decrypt.
\* The dashboard awaits each storage call before it makes the next.
StoreNext ==
    \/ storeSessionKey(Pass1)
    \/ clearSessionKey
    \/ \E form \in ValidSignupForms :
          handleSignup(form[1], form[2], form[3], form[4], form[5])
    \/ \E task \in Tasks, iv \in IVs, now \in Times :
          handleSignupThen(task, iv, now)
    \/ handleLogout
    \/ \E userData \in SaveRecords, iv \in IVs :
          inflight = EmptyBag /\ saveUserData(userData, iv)
    \/ \E request \in Requests, outcome \in Outcomes, now \in Times :
          backupUserDataResponse(request, outcome, now)
    \/ \E request \in Requests, now \in Times :
          backupUserDataJson(request, now)
    \/ loadUserData
    \/ \E githubToken \in Tokens :
          inflight = EmptyBag /\ configureGithubBackup(githubToken)
    \/ \E request \in Requests, outcome \in Outcomes :
          configureGithubBackupResponse(request, outcome)
    \/ \E password \in Passwords :
          inflight = EmptyBag /\ restoreFromBackup(password)
    \/ \E request \in Requests, outcome \in Outcomes :
          restoreFromBackupResponse(request, outcome)

StoreSpec == Init /\ [][StoreNext]_vars

\* the authentication flow of a browser two people share
SharedNext ==
    \/ \E form \in SharedLoginForms :
          handleLogin(form[1], form[2], form[3])
    \/ \E task \in Tasks : handleLoginThen(task)
    \/ \E form \in SharedSignupForms :
          handleSignup(form[1], form[2], form[3], form[4], form[5])
    \/ \E task \in Tasks, iv \in IVs, now \in Times :
          handleSignupThen(task, iv, now)
    \/ handleLogout
    \/ checkRememberMeCookie

SharedSpec == Init /\ [][SharedNext]_vars

\* the remote mirror when the page does not wait for one save to return
\* before it starts the next
MirrorNext ==
    \/ storeSessionKey(Pass1)
    \/ handleSignup(NameAB, EmailA, Pass1, Pass1, TRUE)
    \/ \E task \in Tasks, iv \in IVs, now \in Times :
          handleSignupThen(task, iv, now)
    \/ \E githubToken \in Tokens : configureGithubBackup(githubToken)
    \/ \E request \in Requests, outcome \in Outcomes :
          configureGithubBackupResponse(request, outcome)
    \/ \E userData \in SaveRecords, iv \in IVs :
          saveUserData(userData, iv)
    \/ \E request \in Requests, outcome \in Outcomes, now \in Times :
          backupUserDataResponse(request, outcome, now)
    \/ \E request \in Requests, now \in Times :
          backupUserDataJson(request, now)

MirrorSpec == Init /\ [][MirrorNext]_vars

CodecNext ==
    \/ \E iv \in IVs : CodecEncrypt(iv)
    \/ \E password \in CodecPasswords : CodecDecrypt(password)

CodecSpec == CodecInit /\ [][CodecNext]_vars

\* ------------------------------------------------------------- properties
Anonymous ==
    /\ localStorage.gcash_logged_in = Absent
    /\ localStorage.gcash_current_user = Absent

UserA == toLowerCase(EmailA)

\* C1: after handleLogout the logged-in flag, the current-user pointer, the
\* session key and the remember-me cookie are all absent.
C1_LogoutClearsSession ==
    [][handleLogout =>
          /\ localStorage'.gcash_logged_in = Absent
          /\ localStorage'.gcash_current_user = Absent
          /\ sessionStorage'.gcash_session_key = Absent
          /\ cookie'.gcash_remember = Absent]_vars

\* C2: a signup whose form is valid, for an e-mail that already has a blob,
\* shows 'This email is already registered' and leaves the blob, the
\* logged-in flag and the current-user pointer as they were; nothing is
\* queued that could change them later.
C2_DuplicateSignupRejected ==
    [][\A form \in ValidSignupForms :
          (/\ ret'.op = "handleSignup"
           /\ getUser(toLowerCase(form[2])) # NoBlob
           /\ handleSignup(form[1], form[2], form[3], form[4], form[5]))
          => /\ ret'.msg = "This email is already registered"
             /\ localStorage' = localStorage
             /\ pending' = pending]_vars

C2_Witness ==
    /\ ret.op = "handleSignup"
    /\ ret.msg = "This email is already registered"
    /\ getUser(UserA) # NoBlob

\* C3: from the Anonymous state, a login submission leaves the user
\* Anonymous and writes no cookie, and so does its continuation when the
\* password does not decrypt the blob that was read: the flag and the
\* pointer stay absent, the cookie is as it was, the error is shown.
C3_FailedLoginStaysAnonymous ==
    [][/\ \A form \in LoginForms :
            (/\ ret'.op = "handleLogin"
             /\ Anonymous
             /\ handleLogin(form[1], form[2], form[3]))
            => (Anonymous' /\ cookie' = cookie)
       /\ \A task \in Tasks :
            (/\ ret'.op = "handleLogin"
             /\ Anonymous
             /\ decryptData(task.blob, task.password).threw
             /\ handleLoginThen(task))
            => /\ Anonymous'
               /\ cookie' = cookie
               /\ ret'.msg = "Email or password is incorrect"]_vars

C3_Witness ==
    /\ ret.op = "handleLogin"
    /\ ret.msg = "Email or password is incorrect"
    /\ getUser(UserA) # NoBlob
    /\ Anonymous
    /\ cookie.gcash_remember = Absent

\* C4: once a signup has created the account, the blob is in the store and
\* the next loadUserData() returns the record that was created.
C4_SignupThenLoad ==
    [][(/\ ret.op = "handleSignup"
        /\ ret.msg = "Account created successfully! Redirecting..."
        /\ loadUserData)
       => /\ getUser(localStorage.gcash_current_user) # NoBlob
          /\ \E form \in SignupForms, now \in Times :
                ret'.val = NewUserData(form[1], form[2], now)]_vars

\* C5: a login whose password decrypts the blob sets the flag to "true" and
\* the pointer to the lower-cased e-mail, and leaves the session key cache
\* holding that password, so that loadUserData() returns the record.
C5_LoginStoresSessionKey ==
    [][\A task \in Tasks :
          (/\ ret'.op = "handleLogin"
           /\ ~decryptData(task.blob, task.password).threw
           /\ handleLoginThen(task))
          => /\ localStorage'.gcash_logged_in = True
             /\ localStorage'.gcash_current_user = toLowerCase(task.email)
             /\ sessionStorage'.gcash_session_key = task.password
             /\ loadUserDataFrom(localStorage', sessionStorage').val # Null]_vars

\* C6: decryptData(encryptData(R, K), K) does not throw and returns R.
C6_RoundTrip ==
    codec.stage = "decrypted" => (~codec.threw /\ codec.out = codec.data)

\* C7: a saveUserData that has a current user and a session key leaves the
\* slot holding exactly the encryption of the saved record, whatever was
\* there before, and loadUserData() then returns a value equal to it.
C7_SaveThenLoad ==
    [][\A userData \in SaveRecords, iv \in IVs :
          (/\ ret'.op = "saveUserData"
           /\ ~Falsy(localStorage.gcash_current_user)
           /\ ~Falsy(getSessionKey)
           /\ saveUserData(userData, iv))
          => /\ localStorage'.gcash_user =
                   [localStorage.gcash_user EXCEPT
                       ![localStorage.gcash_current_user] =
                           encryptData(userData, getSessionKey, iv)]
             /\ loadUserDataFrom(localStorage', sessionStorage').val = userData]_vars

C7_Witness ==
    /\ ret.op = "loadUserData"
    /\ ret.val \in SaveRecords

\* C8: saveUserData without a current-user pointer, or without a cached
\* session key, returns false, writes no gcash_user_* entry (nor anything
\* else) and issues no remote request.
C8_SaveWithoutSessionFails ==
    [][\A userData \in SaveRecords, iv \in IVs :
          (/\ ret'.op = "saveUserData"
           /\ (Falsy(localStorage.gcash_current_user) \/ Falsy(getSessionKey))
           /\ saveUserData(userData, iv))
          => /\ ret'.val = Bool(FALSE)
             /\ localStorage' = localStorage
             /\ inflight' = inflight
             /\ gists' = gists]_vars

C8_Witness ==
    /\ ret.op = "saveUserData"
    /\ ret.val = Bool(FALSE)
    /\ localStorage.gcash_current_user # Absent
    /\ getSessionKey = Absent

\* C9: loadUserData modifies no storage; it returns null when the pointer is
\* absent, the session key is absent, the user has no blob, or the blob was
\* encrypted under another key, and the decrypted record otherwise.
C9_LoadNullCases ==
    [][(ret'.op = "loadUserData" /\ loadUserData)
       => LET email == localStorage.gcash_current_user
              key == sessionStorage.gcash_session_key
              blob == getUser(email)
          IN  /\ UNCHANGED <<localStorage, sessionStorage, cookie>>
              /\ ret'.val =
                    IF \/ email = Absent
                       \/ key = Absent
                       \/ blob = NoBlob
                       \/ blob[2].key # deriveKeyFromPassword(key, DefaultSalt)
                    THEN Null
                    ELSE JSONparse(blob[2].text).v]_vars

C9_Witness ==
    /\ ret.op = "loadUserData"
    /\ ret.msg = "Error loading user data: Failed to decrypt data"
    /\ ret.val = Null

\* C10: a saveUserData that has a current user and a session key writes the
\* new blob and returns true: at once when the backup is disabled or has no
\* token, and when the request comes back, whether it was accepted, rejected
\* with another status, or the fetch threw.  The answer never touches the
\* blob that was written.
C10_MirrorFailureNeverFailsSave ==
    [][/\ \A userData \in SaveRecords, iv \in IVs :
            (/\ ret'.op = "saveUserData"
             /\ ~Falsy(localStorage.gcash_current_user)
             /\ ~Falsy(getSessionKey)
             /\ saveUserData(userData, iv))
            => LET blob == encryptData(userData, getSessionKey, iv)
               IN  /\ localStorage'.gcash_user[localStorage.gcash_current_user] = blob
                   /\ ret'.val # Bool(FALSE)
                   /\ (backupUserData(blob) = {} => ret'.val = Bool(TRUE))
       /\ \A request \in Requests, outcome \in Outcomes, now \in Times :
            (/\ request.kind = "backup"
             /\ backupUserDataResponse(request, outcome, now))
            => /\ localStorage'.gcash_user = localStorage.gcash_user
               /\ (outcome # "ok" \/ request.method = "PATCH")
                     => ret' = Ret("saveUserData", ret'.msg, Bool(TRUE))
       /\ \A request \in Requests, now \in Times :
            backupUserDataJson(request, now)
            => /\ localStorage'.gcash_user = localStorage.gcash_user
               /\ ret' = Ret("saveUserData", "", Bool(TRUE))]_vars

C10_Witness ==
    /\ ret.op = "saveUserData"
    /\ ret.msg = "Backup error: GitHub API error"
    /\ ret.val = Bool(TRUE)
    /\ localStorage.gcash_backup_enabled = True

\* C11: the session key lives in sessionStorage only.  Whenever a key is
\* cached, no string entry of localStorage and no cookie equals it (the blobs
\* are ciphertext and the backup pointer is the remote store's identifier,
\* neither is a string a caller supplied); the cache changes only in
\* storeSessionKey, which leaves it holding the new key whatever it held,
\* and in clearSessionKey, which leaves it empty.
DurableFreeOfKey(local, jar, key) ==
    key # Absent =>
       /\ local.gcash_logged_in # key
       /\ local.gcash_current_user # key
       /\ local.gcash_backup_enabled # key
       /\ local.gcash_github_token # key
       /\ local.gcash_last_backup # key
       /\ jar.gcash_remember # key

C12_BackupContract ==
    [][/\ \A userData \in SaveRecords, iv \in IVs :
            (/\ ret'.op = "saveUserData"
             /\ ~Falsy(localStorage.gcash_current_user)
             /\ ~Falsy(getSessionKey)
             /\ saveUserData(userData, iv))
            => LET blob == encryptData(userData, getSessionKey, iv)
                   token == localStorage.gcash_github_token
                   gistId == localStorage.gcash_backup_gist_id
               IN  /\ localStorage'.gcash_backup_gist_id = gistId
                   /\ localStorage'.gcash_last_backup =
                         localStorage.gcash_last_backup
                   /\ gists' = gists
                   /\ inflight' =
                         IF \/ localStorage.gcash_backup_enabled # True
                            \/ token = Absent \/ token = <<>>
                         THEN inflight
                         ELSE IF gistId # NoGist
                         THEN inflight (+) SetToBag(
                                {Request("backup", "fetch", "PATCH", gistId,
                                         blob, token)})
                         ELSE inflight (+) SetToBag(
                                {Request("backup", "fetch", "POST", NoGist,
                                         blob, token)})
       /\ \A request \in Requests, outcome \in Outcomes, now \in Times :
            (/\ request.kind = "backup"
             /\ backupUserDataResponse(request, outcome, now))
            => /\ localStorage'.gcash_backup_gist_id =
                     localStorage.gcash_backup_gist_id
               /\ outcome # "ok" => (localStorage' = localStorage
                                     /\ gists' = gists)
               /\ (outcome = "ok" /\ request.method = "PATCH")
                     => /\ gists' = [gists EXCEPT
                                       ![request.gistId] = request.content]
                        /\ localStorage'.gcash_last_backup # Absent
               /\ (outcome = "ok" /\ request.method = "POST")
                     => /\ localStorage' = localStorage
                        /\ \E g \in GistIds :
                              /\ gists[g] = NoBlob
                              /\ gists' = [gists EXCEPT
                                             ![g] = request.content]
       /\ \A request \in Requests, now \in Times :
            backupUserDataJson(request, now)
            => /\ request.method = "POST"
               /\ gists[request.gistId] = request.content
               /\ localStorage'.gcash_backup_gist_id = request.gistId
               /\ localStorage'.gcash_last_backup # Absent
               /\ gists' = gists]_vars

\* a create came back with a pointer, the pointer was stored, and the next
\* save is an update in flight against it
C12_Witness ==
    /\ localStorage.gcash_backup_gist_id # NoGist
    /\ localStorage.gcash_last_backup # Absent
    /\ \E request \in Requests :
          /\ request.method = "PATCH"
          /\ request.gistId = localStorage.gcash_backup_gist_id
          /\ gists[request.gistId] # request.content

C14_LogoutIdempotent ==
    [][(ret.op = "handleLogout" /\ handleLogout)
       => UNCHANGED <<localStorage, sessionStorage, cookie, ret>>]_vars

\* a logout that had something to clear: an account exists, a key is cached
C14_Witness ==
    /\ ret.op = "handleLogout"
    /\ getUser(UserA) # NoBlob
    /\ sessionStorage.gcash_session_key # Absent
    /\ pending # EmptyBag
    /\ Anonymous
    /\ cookie.gcash_remember = Absent

\* C15: once gcash_user_<email> holds a blob, no signup continuation writes
\* that entry again: the account a signup created is not replaced by the
\* continuation of another signup that was submitted while the entry was
\* still empty.
C15_SignupNeverOverwrites ==
    [][\A task \in Tasks, iv \in IVs, now \in Times :
          (/\ ret'.op = "handleSignup"
           /\ task.kind = "signup"
           /\ getUser(toLowerCase(task.email)) # NoBlob
           /\ handleSignupThen(task, iv, now))
          => localStorage'.gcash_user = localStorage.gcash_user]_vars

\* C16: a blob is created under the password of the signup and a login
\* succeeds only with a password that opens it, so the blob opens under
\* the user's password in every state provided no save changes the key:
\* a password that opened the current user's blob before a saveUserData
\* opens it afterwards.
C16_SaveKeepsKey ==
    [][\A userData \in SaveRecords, iv \in IVs :
          (/\ ret'.op = "saveUserData"
           /\ localStorage.gcash_current_user # Absent
           /\ saveUserData(userData, iv))
          => \A password \in Passwords :
                ~decryptData(getUser(localStorage.gcash_current_user),
                             password).threw
                => ~decryptData(
                      localStorage'.gcash_user[localStorage.gcash_current_user],
                      password).threw]_vars

\* C17: a step after which someone is logged in who was not the current
\* user before it is the continuation of a login whose password decrypted
\* that user's blob, or the continuation of a signup that wrote that user's
\* blob; checkRememberMeCookie in particular makes nobody the current user.
C17_AuthenticatedOnlyByPassword ==
    [][(/\ localStorage'.gcash_logged_in = True
        /\ \/ localStorage.gcash_logged_in # True
           \/ localStorage'.gcash_current_user #
                 localStorage.gcash_current_user)
       => \E task \in Tasks :
             /\ pending' = pending (-) SetToBag({task})
             /\ localStorage'.gcash_current_user = toLowerCase(task.email)
             /\ \/ /\ task.kind = "login"
                   /\ ~decryptData(task.blob, task.password).threw
                \/ /\ task.kind = "signup"
                   /\ ~decryptData(
                         localStorage'.gcash_user[toLowerCase(task.email)],
                         task.password).threw]_vars

\* C18: in every state gcash_logged_in is "true" exactly when
\* gcash_current_user is set (and is absent otherwise), and the pointer,
\* when set, names an e-mail that has a gcash_user_<email> blob.
C18_FlagMatchesPointer ==
    /\ localStorage.gcash_logged_in \in {True, Absent}
    /\ (localStorage.gcash_logged_in = True)
          <=> (localStorage.gcash_current_user # Absent)
    /\ localStorage.gcash_current_user # Absent
          => /\ localStorage.gcash_current_user \in Users
             /\ getUser(localStorage.gcash_current_user) # NoBlob

\* two accounts: the second is the current user while the cookie still
\* names the first, and a continuation is waiting
C18_Witness ==
    /\ localStorage.gcash_current_user = toLowerCase(EmailC)
    /\ cookie.gcash_remember = UserA
    /\ ret.op = "handleLogin"
    /\ pending # EmptyBag

\* C19: the remote store never holds more than one blob created by the
\* backups, and gcash_backup_gist_id, once set, keeps its value.
C19_OneRemoteBlob ==
    [][/\ Cardinality({g \in GistIds : gists'[g] # NoBlob}) <= 1
       /\ localStorage.gcash_backup_gist_id # NoGist
             => localStorage'.gcash_backup_gist_id =
                   localStorage.gcash_backup_gist_id]_vars

====
